---- MODULE Spec2Model ----
(***************************************************************************)
(* Model of the trace-to-visualization pipeline of trace_parser.py:        *)
(* TraceParser (load_trace_data, parse_events, get_event_color,            *)
(* create_hover_text) and TraceVisualizer (prepare_data,                   *)
(* create_timeline_figure, create_summary_stats).                          *)
(*                                                                         *)
(* Representation.  A Python scalar is a record [t, n, s]: t is its type   *)
(* ("str", "int", "float", "None", "nan", "list"), n its number, s its     *)
(* string.  Dictionary keys and DataFrame column names are tuples of       *)
(* one-character strings, so that startswith, replace and title act on     *)
(* characters as they do in Python.  A dict is the sequence of its         *)
(* <<key, value>> pairs in insertion order.  The text "<br>".join(parts)   *)
(* is held as the sequence of its parts.                                   *)
(***************************************************************************)
EXTENDS Integers, Sequences, FiniteSets, TLC

VARIABLES
    file,        \* what is stored at trace_file_path
    trace_data,  \* TraceParser.trace_data
    parser_df,   \* TraceParser.events_df
    events_df,   \* TraceVisualizer.events_df
    ret          \* outcome of the last call: what it returned or raised

vars == <<file, trace_data, parser_df, events_df, ret>>

-----------------------------------------------------------------------------
(* Bounds of the model *)

\* longest `events` array of a trace file
MaxEvents == 2

\* timestamps of the events are drawn from 0..MaxTime
MaxTime == 1

-----------------------------------------------------------------------------
(* Python values *)

StrV(x) == [t |-> "str", n |-> 0, s |-> x]
IntV(i) == [t |-> "int", n |-> i, s |-> ""]
FloatV(i) == [t |-> "float", n |-> i, s |-> ""]
\* None (JSON null)
NoneV == [t |-> "None", n |-> 0, s |-> ""]
\* float('nan'): what pandas puts in a cell that has no value
NaNV == [t |-> "nan", n |-> 0, s |-> ""]
\* a JSON array of two or more elements: unhashable, and pd.notna of it is an array
ListV == [t |-> "list", n |-> 0, s |-> ""]

\* bool(v)
Truthy(v) ==
    CASE v.t = "str" -> v.s # ""
      [] v.t = "int" -> v.n # 0
      [] v.t = "float" -> v.n # 0
      [] v.t = "None" -> FALSE
      [] v.t = "nan" -> TRUE
      [] v.t = "list" -> TRUE

Digit == <<"0", "1", "2", "3", "4", "5", "6", "7", "8", "9">>

RECURSIVE NatStr(_)
NatStr(i) == IF i < 10 THEN Digit[i + 1] ELSE NatStr(i \div 10) \o Digit[(i % 10) + 1]

\* str(v), as an f-string formats it
Str(v) ==
    CASE v.t = "str" -> v.s
      [] v.t = "int" -> IF v.n < 0 THEN "-" \o NatStr(-v.n) ELSE NatStr(v.n)
      [] v.t = "float" -> (IF v.n < 0 THEN "-" \o NatStr(-v.n) ELSE NatStr(v.n)) \o ".0"
      [] v.t = "None" -> "None"
      [] v.t = "nan" -> "nan"
      [] v.t = "list" -> "['a', 'b']"

-----------------------------------------------------------------------------
(* Strings as tuples of characters *)

LowerCase == {"a", "b", "c", "d", "e", "f", "g", "h", "i", "j", "k", "l", "m",
              "n", "o", "p", "q", "r", "s", "t", "u", "v", "w", "x", "y", "z"}

UpperOf == [a |-> "A", b |-> "B", c |-> "C", d |-> "D", e |-> "E", f |-> "F",
            g |-> "G", h |-> "H", i |-> "I", j |-> "J", k |-> "K", l |-> "L",
            m |-> "M", n |-> "N", o |-> "O", p |-> "P", q |-> "Q", r |-> "R",
            s |-> "S", t |-> "T", u |-> "U", v |-> "V", w |-> "W", x |-> "X",
            y |-> "Y", z |-> "Z"]

UpperCase == {UpperOf[c] : c \in LowerCase}

LowerOf(c) == CHOOSE l \in LowerCase : UpperOf[l] = c

IsCased(c) == c \in LowerCase \/ c \in UpperCase

\* cs.startswith(p)
StartsWith(cs, p) == Len(cs) >= Len(p) /\ SubSeq(cs, 1, Len(p)) = p

Tail_n(cs, k) == SubSeq(cs, k + 1, Len(cs))

\* cs.replace(old, new): every non-overlapping occurrence, left to right
RECURSIVE Replace(_, _, _)
Replace(cs, old, new) ==
    IF cs = <<>> THEN <<>>
    ELSE IF StartsWith(cs, old) THEN new \o Replace(Tail_n(cs, Len(old)), old, new)
    ELSE <<Head(cs)>> \o Replace(Tail(cs), old, new)

\* cs.title(): a cased character is upper-cased when the one before it is not
\* cased, and lower-cased otherwise
RECURSIVE TitleFrom(_, _)
TitleFrom(cs, prevCased) ==
    IF cs = <<>> THEN <<>>
    ELSE LET c == Head(cs)
             out == IF c \in LowerCase /\ ~prevCased THEN UpperOf[c]
                    ELSE IF c \in UpperCase /\ prevCased THEN LowerOf(c)
                    ELSE c
         IN  <<out>> \o TitleFrom(Tail(cs), IsCased(c))

Title(cs) == TitleFrom(cs, FALSE)

\* the str whose characters are cs
RECURSIVE Text(_)
Text(cs) == IF cs = <<>> THEN "" ELSE Head(cs) \o Text(Tail(cs))

-----------------------------------------------------------------------------
(* Keys and column names *)

col_timestamp == <<"t", "i", "m", "e", "s", "t", "a", "m", "p">>
col_formatted_time == <<"f", "o", "r", "m", "a", "t", "t", "e", "d", "_", "t", "i", "m", "e">>
col_module_name == <<"m", "o", "d", "u", "l", "e", "_", "n", "a", "m", "e">>
col_event_type == <<"e", "v", "e", "n", "t", "_", "t", "y", "p", "e">>
col_y_position == <<"y", "_", "p", "o", "s", "i", "t", "i", "o", "n">>
col_color == <<"c", "o", "l", "o", "r">>
col_hover_text == <<"h", "o", "v", "e", "r", "_", "t", "e", "x", "t">>
col_data_operation == <<"d", "a", "t", "a", "_", "o", "p", "e", "r", "a", "t", "i", "o", "n">>

\* the prefix parse_events puts before an event_data key
DataPrefix == <<"d", "a", "t", "a", "_">>

\* event_data keys of the sample files
key_operation == <<"o", "p", "e", "r", "a", "t", "i", "o", "n">>
key_size == <<"s", "i", "z", "e">>
key_irq == <<"i", "r", "q">>
key_tags == <<"t", "a", "g", "s">>
key_data_size == <<"d", "a", "t", "a", "_", "s", "i", "z", "e">>
key_raw_data_len == <<"r", "a", "w", "_", "d", "a", "t", "a", "_", "l", "e", "n">>

\* the keys parse_events reads from every event, in the order it reads them
CoreKeys == <<col_timestamp, col_formatted_time, col_module_name, col_event_type>>

-----------------------------------------------------------------------------
(* The trace file: a JSON document {trace_info: {total_events}, events: [...]} *)

\* one entry of `events`; `missing` holds the core keys the entry lacks
Event(ts, module, type, has_data, data, missing) ==
    [timestamp |-> FloatV(ts), formatted_time |-> StrV("T+" \o NatStr(ts)),
     module_name |-> StrV(module), event_type |-> StrV(type),
     has_event_data |-> has_data, event_data |-> data, missing |-> missing]

Doc(has_events, events, total) ==
    [has_events |-> has_events, events |-> events, total_events |-> total]

EmptyDoc == Doc(FALSE, <<>>, 0)

\* the file does not exist / is not JSON / holds a JSON document
MissingFile == [kind |-> "missing", doc |-> EmptyDoc]
InvalidFile == [kind |-> "invalid", doc |-> EmptyDoc]
JsonFile(doc) == [kind |-> "json", doc |-> doc]

\* None, and a loaded document, as the value of TraceParser.trace_data
NoData == [loaded |-> FALSE, doc |-> EmptyDoc]
Data(doc) == [loaded |-> TRUE, doc |-> doc]

-----------------------------------------------------------------------------
(* Dicts: sequences of <<key, value>> pairs *)

HasKey(d, k) == \E i \in 1..Len(d) : d[i][1] = k

Get(d, k) == d[CHOOSE i \in 1..Len(d) : d[i][1] = k][2]

\* the keys of d that acc does not hold yet, appended to acc in d's order
RECURSIVE AddKeys(_, _)
AddKeys(acc, d) ==
    IF d = <<>> THEN acc
    ELSE AddKeys(IF \E i \in 1..Len(acc) : acc[i] = d[1][1] THEN acc
                 ELSE Append(acc, d[1][1]),
                 Tail(d))

-----------------------------------------------------------------------------
(* pandas.DataFrame *)

\* None, as the value of an events_df attribute
NoDF == [kind |-> "None", columns |-> <<>>, rows |-> <<>>]

\* ColumnsOf, were the keys gathered from the last record to the first
RECURSIVE ColumnsOf_latest(_, _)
ColumnsOf_latest(acc, records) ==
    IF records = <<>> THEN acc
    ELSE ColumnsOf_latest(AddKeys(acc, records[Len(records)]),
                          SubSeq(records, 1, Len(records) - 1))

\* the columns of DataFrame(records): the keys in order of first appearance
RECURSIVE ColumnsOf(_, _)
ColumnsOf(acc, records) ==
    IF records = <<>> THEN acc
    ELSE ColumnsOf(AddKeys(acc, Head(records)), Tail(records))

\* the dtype pandas infers for column c: int64 when every record holds an int,
\* float64 when the values are numbers, None or missing (with a number among
\* them), object otherwise
ColumnDtype(records, c) ==
    LET held == {i \in 1..Len(records) : HasKey(records[i], c)}
        types == {Get(records[i], c).t : i \in held}
    IN  IF held = 1..Len(records) /\ types = {"int"} THEN "int64"
        ELSE IF types \subseteq {"int", "float", "nan", "None"}
                /\ types \cap {"int", "float", "nan"} # {} THEN "float64"
        ELSE "object"

\* the cell of record rec in column c of dtype dt
Cell(rec, c, dt) ==
    IF ~HasKey(rec, c) THEN NaNV
    ELSE LET v == Get(rec, c)
         IN  IF dt = "float64"
             THEN (IF v.t = "int" THEN FloatV(v.n)
                   ELSE IF v.t = "None" THEN NaNV
                   ELSE v)
             ELSE v

\* pd.DataFrame(records): one row per record, a row being a function of the columns
DataFrame(records) ==
    LET cols == ColumnsOf(<<>>, records)
        colset == {cols[j] : j \in 1..Len(cols)}
    IN  [kind |-> "DataFrame",
         columns |-> cols,
         rows |-> [i \in 1..Len(records) |->
                      [c \in colset |-> Cell(records[i], c, ColumnDtype(records, c))]]]

HasColumn(df, c) == \E j \in 1..Len(df.columns) : df.columns[j] = c

\* df[c] = values: a new column c, one value per row
WithColumn(df, c, values) ==
    [kind |-> "DataFrame",
     columns |-> IF HasColumn(df, c) THEN df.columns ELSE Append(df.columns, c),
     rows |-> [i \in 1..Len(df.rows) |->
                 [x \in (DOMAIN df.rows[i]) \cup {c} |->
                     IF x = c THEN values[i] ELSE df.rows[i][x]]]]

\* Series.unique(): the distinct values of a sequence, in order of first appearance
RECURSIVE Unique(_)
Unique(seq) ==
    IF seq = <<>> THEN <<>>
    ELSE LET init == Unique(SubSeq(seq, 1, Len(seq) - 1))
             last == seq[Len(seq)]
         IN  IF \E j \in 1..Len(init) : init[j] = last THEN init ELSE Append(init, last)

\* df[c] as a sequence
Column(df, c) == [i \in 1..Len(df.rows) |-> df.rows[i][c]]

-----------------------------------------------------------------------------
(* TraceParser *)

\* What a call returns or raises.  exc is "" when the call returns; key is the
\* key of a KeyError.
Returned == [exc |-> "", key |-> <<>>]
Raised(exc, key) == [exc |-> exc, key |-> key]

\* load_trace_data: open and json.load, with the two except clauses
load_trace_data(f) ==
    IF f.kind = "missing" THEN [out |-> Raised("FileNotFoundError", <<>>), data |-> NoData]
    ELSE IF f.kind = "invalid" THEN [out |-> Raised("ValueError", <<>>), data |-> NoData]
    ELSE [out |-> Returned, data |-> Data(f.doc)]

\* the dict parse_events builds for one event (the event holds every core key)
parsed_event(event) ==
    <<<<col_timestamp, event.timestamp>>,
      <<col_formatted_time, event.formatted_time>>,
      <<col_module_name, event.module_name>>,
      <<col_event_type, event.event_type>>>>
    \o (IF event.has_event_data
        THEN [i \in 1..Len(event.event_data) |->
                 <<DataPrefix \o event.event_data[i][1], event.event_data[i][2]>>]
        ELSE <<>>)

\* the first core key event lacks, in the order parse_events reads them
FirstMissing(event) ==
    CoreKeys[CHOOSE j \in 1..Len(CoreKeys) :
                /\ CoreKeys[j] \in event.missing
                /\ \A k \in 1..(j - 1) : CoreKeys[k] \notin event.missing]

\* the indices of the events that lack a core key
bad_events(events) == {i \in 1..Len(events) : events[i].missing # {}}

\* parse_document, were it to stop at the declared trace_info.total_events
parse_document_declared(data, df0) ==
    IF ~data.doc.has_events
    THEN [out |-> Raised("KeyError", <<"e", "v", "e", "n", "t", "s">>),
          data |-> data, df |-> df0]
    ELSE IF bad_events(data.doc.events) # {}
    THEN [out |-> Raised("KeyError",
                         FirstMissing(data.doc.events[
                             CHOOSE i \in bad_events(data.doc.events) :
                                 \A j \in bad_events(data.doc.events) : i <= j])),
          data |-> data, df |-> df0]
    ELSE [out |-> Returned, data |-> data,
          df |-> DataFrame([i \in 1..(IF data.doc.total_events < Len(data.doc.events)
                                      THEN data.doc.total_events
                                      ELSE Len(data.doc.events)) |->
                               parsed_event(data.doc.events[i])])]

\* the loop of parse_events over trace_data['events'], and the DataFrame it builds
parse_document(data, df0) ==
    IF ~data.doc.has_events
    THEN [out |-> Raised("KeyError", <<"e", "v", "e", "n", "t", "s">>),
          data |-> data, df |-> df0]
    ELSE IF bad_events(data.doc.events) # {}
    THEN [out |-> Raised("KeyError",
                         FirstMissing(data.doc.events[
                             CHOOSE i \in bad_events(data.doc.events) :
                                 \A j \in bad_events(data.doc.events) : i <= j])),
          data |-> data, df |-> df0]
    ELSE [out |-> Returned, data |-> data,
          df |-> DataFrame([i \in 1..Len(data.doc.events) |->
                               parsed_event(data.doc.events[i])])]

\* parse_events once `if not self.trace_data: self.load_trace_data()` has run
\* with outcome l
parse_loaded(l, td, df0) ==
    IF l.out.exc # "" THEN [out |-> l.out, data |-> td, df |-> df0]
    ELSE parse_document(l.data, df0)

\* parse_events, from trace_data = td, events_df = df0 and the file f:
\* out is what it returns or raises, data the new trace_data, df the new events_df
parse_events(f, td, df0) ==
    parse_loaded(IF td.loaded THEN [out |-> Returned, data |-> td]
                 ELSE load_trace_data(f),
                 td, df0)

\* the table of get_event_color
color_map ==
    [BUS_TRANSACTION |->
        [READ |-> "#3498db", WRITE |-> "#e74c3c", default |-> "#9b59b6"],
     DEVICE_EVENT |->
        [READ |-> "#2ecc71", WRITE |-> "#f39c12", RESET |-> "#e67e22",
         ENABLE |-> "#1abc9c", DISABLE |-> "#95a5a6", DEMO_EVENT |-> "#f1c40f",
         default |-> "#34495e"],
     IRQ_EVENT |->
        [default |-> "#8e44ad"]]

\* color_map.get(event_type, {})
event_colors(event_type) ==
    IF event_type \in DOMAIN color_map THEN color_map[event_type] ELSE <<>>

\* default_color, were the fallback the global gray for every event type
default_color_gray(event_type) == "#7f7f7f"

\* event_colors.get('default', '#7f7f7f')
default_color(event_type) ==
    IF "default" \in DOMAIN event_colors(event_type)
    THEN event_colors(event_type)["default"]
    ELSE "#7f7f7f"

\* get_event_color(event_type, operation), operation a Python value (None when
\* the argument is left out).  `operation in event_colors` hashes operation,
\* which raises TypeError for a list.
get_event_color(event_type, operation) ==
    IF Truthy(operation)
    THEN IF operation.t = "list"
         THEN [out |-> Raised("TypeError", <<>>), color |-> ""]
         ELSE IF operation.t = "str" /\ operation.s \in DOMAIN event_colors(event_type)
         THEN [out |-> Returned, color |-> event_colors(event_type)[operation.s]]
         ELSE [out |-> Returned, color |-> default_color(event_type)]
    ELSE [out |-> Returned, color |-> default_color(event_type)]

\* the columns of row.index that start with 'data_', in index order
data_fields(columns) == SelectSeq(columns, LAMBDA col : StartsWith(col, DataPrefix))

\* field.replace('data_', '').replace('_', ' ').title()
field_name(field) == Title(Replace(Replace(field, DataPrefix, <<>>), <<"_">>, <<" ">>))

\* shown, were a line appended for every field
shown_always(v) == TRUE

\* pd.notna(v) and v is not None
shown(v) == v.t \notin {"nan", "None"}

\* the lines create_hover_text appends for the fields, in order
RECURSIVE hover_data_parts(_, _)
hover_data_parts(row, fields) ==
    IF fields = <<>> THEN <<>>
    ELSE (IF shown(row[Head(fields)])
          THEN <<"<b>" \o Text(field_name(Head(fields))) \o ":</b> "
                   \o Str(row[Head(fields)])>>
          ELSE <<>>)
         \o hover_data_parts(row, Tail(fields))

\* create_hover_text(row), row the function of the columns `columns`.  The truth
\* value of pd.notna(v) is ambiguous for a list v: ValueError.
create_hover_text(row, columns) ==
    LET fields == data_fields(columns)
    IN  IF \E j \in 1..Len(fields) : row[fields[j]].t = "list"
        THEN [out |-> Raised("ValueError", <<>>), text |-> <<>>]
        ELSE [out |-> Returned,
              text |-> <<"<b>Time:</b> " \o Str(row[col_formatted_time]),
                         "<b>Module:</b> " \o Str(row[col_module_name]),
                         "<b>Event Type:</b> " \o Str(row[col_event_type])>>
                       \o hover_data_parts(row, fields)]

-----------------------------------------------------------------------------
(* TraceVisualizer *)

\* the sample module names in alphabetical order
Alphabetical == <<"CPU", "UART0">>

AlphabeticalRank(module) == CHOOSE j \in 1..Len(Alphabetical) : Alphabetical[j] = module.s

\* module_positions, were the modules enumerated in sorted order
module_positions_sorted(unique_modules, module) ==
    Cardinality({j \in 1..Len(unique_modules) :
                    AlphabeticalRank(unique_modules[j]) < AlphabeticalRank(module)})

\* module_positions[module], for {module: i for i, module in enumerate(unique_modules)}
module_positions(unique_modules, module) ==
    (CHOOSE j \in 1..Len(unique_modules) : unique_modules[j] = module) - 1

\* row.get('data_operation', None)
row_operation(df, i) ==
    IF HasColumn(df, col_data_operation) THEN df.rows[i][col_data_operation] ELSE NoneV

\* the smallest element of a non-empty set of numbers
Min(S) == CHOOSE x \in S : \A y \in S : x <= y

\* the first outcome of a sequence of outcomes that is a raise
first_raised(outs) == outs[Min({i \in 1..Len(outs) : outs[i].out.exc # ""})].out

any_raised(outs) == \E i \in 1..Len(outs) : outs[i].out.exc # ""

\* What a method of the visualizer leaves behind: what it returns or raises
\* (out, value), trace_data (data) and the events_df of the parser (pdf) and of
\* the visualizer (edf).  The DataFrame parse_events returns is the parser's own
\* events_df object, so the columns prepare_data adds show in both attributes.
Left(out, data, df, value) == [out |-> out, data |-> data, pdf |-> df, edf |-> df, value |-> value]

\* prepare_data, `Add hover text`: hovers are the outcomes of create_hover_text
\* on the rows of df
prepare_hover(data, df, hovers) ==
    IF any_raised(hovers) THEN Left(first_raised(hovers), data, df, <<>>)
    ELSE Left(Returned, data,
              WithColumn(df, col_hover_text, [i \in 1..Len(hovers) |-> hovers[i].text]),
              <<>>)

\* prepare_data, with the color column set
prepare_colored(data, df) ==
    prepare_hover(data, df,
                  [i \in 1..Len(df.rows) |-> create_hover_text(df.rows[i], df.columns)])

\* prepare_data, `Add colors`: colors are the outcomes of get_event_color on the
\* rows of df
prepare_colors(data, df, colors) ==
    IF any_raised(colors) THEN Left(first_raised(colors), data, df, <<>>)
    ELSE prepare_colored(data,
              WithColumn(df, col_color, [i \in 1..Len(colors) |-> StrV(colors[i].color)]))

\* prepare_data, with the y_position column set
prepare_placed(data, df) ==
    prepare_colors(data, df,
                   [i \in 1..Len(df.rows) |->
                       get_event_color(df.rows[i][col_event_type].s, row_operation(df, i))])

\* the y_position column: Series.map(module_positions) of the module_name column
y_positions(modules) ==
    [i \in 1..Len(modules) |-> IntV(module_positions(Unique(modules), modules[i]))]

\* prepare_data, `Add y-position`: df is the DataFrame parse_events returned
prepare_lanes(data, df) ==
    IF ~HasColumn(df, col_module_name)
    THEN Left(Raised("KeyError", col_module_name), data, df, <<>>)
    ELSE prepare_placed(data,
              WithColumn(df, col_y_position, y_positions(Column(df, col_module_name))))

\* prepare_data once parse_events has run with outcome p; a parse_events that
\* raises leaves both events_df as they were
prepare_parsed(p, pdf0, edf0) ==
    IF p.out.exc # ""
    THEN [out |-> p.out, data |-> p.data, pdf |-> pdf0, edf |-> edf0, value |-> <<>>]
    ELSE prepare_lanes(p.data, p.df)

\* prepare_data, from the visualizer's events_df = edf0 and the parser's state
prepare_data(f, td, pdf0, edf0) == prepare_parsed(parse_events(f, td, pdf0), pdf0, edf0)

\* type_events, were the rows not filtered by their event_type
type_events_all(df, event_type) == df.rows

\* the rows of df whose event_type is event_type, in order
type_events(df, event_type) ==
    SelectSeq(df.rows, LAMBDA row : row[col_event_type] = event_type)

\* one go.Scatter of create_timeline_figure
Scatter(df, event_type) ==
    LET rows == type_events(df, event_type)
    IN  [name |-> Str(event_type),
         x |-> [i \in 1..Len(rows) |-> rows[i][col_timestamp]],
         y |-> [i \in 1..Len(rows) |-> rows[i][col_y_position]],
         color |-> [i \in 1..Len(rows) |-> rows[i][col_color]],
         text |-> [i \in 1..Len(rows) |-> rows[i][col_hover_text]]]

\* the columns a go.Scatter reads, in the order its arguments are evaluated
ScatterColumns == <<col_timestamp, col_y_position, col_color, col_hover_text>>

\* the body of create_timeline_figure once events_df is not None: the figure's
\* traces and the ticks of its y axis
timeline_figure(df) ==
    LET event_types == Unique(Column(df, col_event_type))
        lacking == {j \in 1..Len(ScatterColumns) : ~HasColumn(df, ScatterColumns[j])}
        modules == Unique(Column(df, col_module_name))
    IN  IF ~HasColumn(df, col_event_type)
        THEN [out |-> Raised("KeyError", col_event_type), value |-> <<>>]
        ELSE IF event_types # <<>> /\ lacking # {}
        THEN [out |-> Raised("KeyError", ScatterColumns[Min(lacking)]), value |-> <<>>]
        ELSE [out |-> Returned,
              value |-> [data |-> [k \in 1..Len(event_types) |-> Scatter(df, event_types[k])],
                       tickvals |-> [j \in 1..Len(modules) |-> j - 1],
                       ticktext |-> [j \in 1..Len(modules) |-> Str(modules[j])]]]

\* Series.value_counts().to_dict()
value_counts(seq) ==
    [v \in {Str(seq[i]) : i \in 1..Len(seq)} |->
        Cardinality({i \in 1..Len(seq) : Str(seq[i]) = v})]

\* duration, were it the span between the smallest and the largest timestamp
duration_span(timestamps) ==
    LET ts == {timestamps[i].n : i \in 1..Len(timestamps)}
    IN  (CHOOSE x \in ts : \A y \in ts : y <= x) - (CHOOSE x \in ts : \A y \in ts : x <= y)

\* timestamp.iloc[-1] - timestamp.iloc[0]
duration(timestamps) == timestamps[Len(timestamps)].n - timestamps[1].n

\* the body of create_summary_stats once events_df is not None
summary_stats(df) ==
    IF ~HasColumn(df, col_event_type)
    THEN [out |-> Raised("KeyError", col_event_type), value |-> <<>>]
    ELSE IF ~HasColumn(df, col_module_name)
    THEN [out |-> Raised("KeyError", col_module_name), value |-> <<>>]
    ELSE IF ~HasColumn(df, col_formatted_time)
    THEN [out |-> Raised("KeyError", col_formatted_time), value |-> <<>>]
    ELSE IF df.rows = <<>>
    THEN [out |-> Raised("IndexError", <<>>), value |-> <<>>]
    ELSE [out |-> Returned,
          value |-> [total_events |-> Len(df.rows),
                     event_types |-> value_counts(Column(df, col_event_type)),
                     modules |-> value_counts(Column(df, col_module_name)),
                     time_span |->
                        [start |-> Str(df.rows[1][col_formatted_time]),
                         end |-> Str(df.rows[Len(df.rows)][col_formatted_time]),
                         duration |-> duration(Column(df, col_timestamp))]]]

-----------------------------------------------------------------------------
(* The trace files the model is run on *)

Modules == {"UART0", "CPU"}

PipelineTypes == {"BUS_TRANSACTION", "DEVICE_EVENT"}

\* trace_info.total_events as the file declares it: below, at or above the
\* length of `events` (13 is the demo file's)
DeclaredTotals == {1, 13}

NoPayload == [has |-> FALSE, data |-> <<>>]
Payload(data) == [has |-> TRUE, data |-> data]

\* events that make a step of the pipeline raise: an entry without module_name,
\* an operation that is a JSON array, another event_data value that is one
FaultyEvents ==
    {Event(0, "UART0", "BUS_TRANSACTION", FALSE, <<>>, {col_module_name}),
     Event(0, "UART0", "BUS_TRANSACTION", TRUE, <<<<key_operation, ListV>>>>, {}),
     Event(0, "UART0", "DEVICE_EVENT", TRUE, <<<<key_tags, ListV>>>>, {})}

\* the events of the files the pipeline is run on
PipelineEvents ==
    {Event(ts, m, ty, FALSE, <<>>, {}) :
        ts \in 0..MaxTime, m \in Modules, ty \in PipelineTypes}
    \cup FaultyEvents

\* event_data of the events the hover text is studied on
HoverPayloads ==
    {NoPayload,
     Payload(<<>>),
     Payload(<<<<key_operation, StrV("READ")>>>>),
     Payload(<<<<key_size, IntV(4)>>>>),
     Payload(<<<<key_operation, StrV("WRITE")>>, <<key_size, IntV(4)>>>>),
     Payload(<<<<key_size, IntV(2)>>, <<key_operation, StrV("READ")>>>>),
     Payload(<<<<key_operation, StrV("RESET")>>, <<key_irq, NoneV>>>>),
     Payload(<<<<key_irq, IntV(3)>>>>),
     Payload(<<<<key_data_size, IntV(8)>>>>),
     Payload(<<<<key_raw_data_len, IntV(7)>>>>)}

HoverEvents ==
    {Event(0, "UART0", "DEVICE_EVENT", pl.has, pl.data, {}) : pl \in HoverPayloads}

\* the sequences over S of length at most n
SeqUpTo(S, n) == UNION {[1..k -> S] : k \in 0..n}

\* the files whose events are drawn from S: no file, a file that is not JSON, a
\* JSON document without `events`, and the documents with up to MaxEvents events
Files(S, totals) ==
    {MissingFile, InvalidFile}
    \cup {JsonFile(Doc(FALSE, <<>>, t)) : t \in totals}
    \cup {JsonFile(Doc(TRUE, evs, t)) : evs \in SeqUpTo(S, MaxEvents), t \in totals}

\* the arguments get_event_color is called with
ColorEventTypes == {"BUS_TRANSACTION", "DEVICE_EVENT", "IRQ_EVENT", "CUSTOM_EVENT", ""}

ColorOperations ==
    {NoneV, NaNV, IntV(1), StrV("")}
    \cup {StrV(o) : o \in {"READ", "WRITE", "READ_FAILED", "WRITE_FAILED", "RESET",
                           "ENABLE", "DISABLE", "IRQ_TRIGGER", "IRQ_TRIGGER_FAILED",
                           "INIT_START", "INIT_COMPLETE", "RESET_START",
                           "RESET_COMPLETE", "SHUTDOWN_START", "SHUTDOWN_COMPLETE",
                           "DEMO_EVENT", "default", "UNKNOWN"}}

-----------------------------------------------------------------------------
(* State machine *)

\* no call has been made yet
NoCall == [op |-> "", exc |-> "", key |-> <<>>, args |-> <<>>, value |-> <<>>]

Outcome(op, out, args, value) ==
    [op |-> op, exc |-> out.exc, key |-> out.key, args |-> args,
     value |-> IF out.exc = "" THEN value ELSE <<>>]

\* TraceParser(path) and TraceVisualizer(parser), for a file of F
InitWith(F) ==
    /\ file \in F
    /\ trace_data = NoData
    /\ parser_df = NoDF
    /\ events_df = NoDF
    /\ ret = NoCall

Init == InitWith(Files(PipelineEvents, DeclaredTotals))

InitHover == InitWith(Files(HoverEvents, {13}))

InitColor == InitWith({MissingFile})

\* the state and the outcome a call leaves behind
Leave(op, r) ==
    /\ trace_data' = r.data
    /\ parser_df' = r.pdf
    /\ events_df' = r.edf
    /\ ret' = Outcome(op, r.out, <<>>, r.value)
    /\ UNCHANGED file

\* parser.load_trace_data(): trace_data is assigned only when json.load returns
load_call(l, td, pdf0, edf0) ==
    [out |-> l.out, data |-> IF l.out.exc = "" THEN l.data ELSE td,
     pdf |-> pdf0, edf |-> edf0, value |-> l.data]

LoadTraceData ==
    Leave("load_trace_data", load_call(load_trace_data(file), trace_data, parser_df, events_df))

\* parser.parse_events()
parse_call(p, edf0) ==
    [out |-> p.out, data |-> p.data, pdf |-> p.df, edf |-> edf0, value |-> p.df]

ParseEvents ==
    Leave("parse_events", parse_call(parse_events(file, trace_data, parser_df), events_df))

\* visualizer.prepare_data()
PrepareData ==
    Leave("prepare_data", prepare_data(file, trace_data, parser_df, events_df))

\* the `if self.events_df is None: self.prepare_data()` that opens
\* create_timeline_figure and create_summary_stats
ensure_prepared(f, td, pdf0, edf0) ==
    IF edf0.kind = "None" THEN prepare_data(f, td, pdf0, edf0)
    ELSE [out |-> Returned, data |-> td, pdf |-> pdf0, edf |-> edf0, value |-> <<>>]

\* a method that has run ensure_prepared with outcome p, and then, were it did not
\* raise, its body with outcome r
after_prepared(p, r) ==
    IF p.out.exc # "" THEN p
    ELSE [out |-> r.out, data |-> p.data, pdf |-> p.pdf, edf |-> p.edf, value |-> r.value]

\* create_timeline_figure, p the outcome of its ensure_prepared
create_timeline_figure(p) ==
    after_prepared(p, IF p.out.exc # "" THEN p ELSE timeline_figure(p.edf))

\* create_summary_stats, p the outcome of its ensure_prepared
create_summary_stats(p) ==
    after_prepared(p, IF p.out.exc # "" THEN p ELSE summary_stats(p.edf))

\* visualizer.create_timeline_figure()
CreateTimelineFigure ==
    Leave("create_timeline_figure",
          create_timeline_figure(ensure_prepared(file, trace_data, parser_df, events_df)))

\* visualizer.create_summary_stats()
CreateSummaryStats ==
    Leave("create_summary_stats",
          create_summary_stats(ensure_prepared(file, trace_data, parser_df, events_df)))

\* parser.get_event_color(event_type, operation)
color_call(event_type, operation, c) ==
    /\ ret' = Outcome("get_event_color", c.out, <<event_type, operation>>, c.color)
    /\ UNCHANGED <<file, trace_data, parser_df, events_df>>

GetEventColor(event_type, operation) ==
    color_call(event_type, operation, get_event_color(event_type, operation))

Next ==
    \/ LoadTraceData
    \/ ParseEvents
    \/ PrepareData
    \/ CreateTimelineFigure
    \/ CreateSummaryStats

NextColor ==
    \E event_type \in ColorEventTypes, operation \in ColorOperations :
        GetEventColor(event_type, operation)

\* the pipeline on the trace files of Init
Spec == Init /\ [][Next]_vars

\* the pipeline on files whose events differ in their event_data
SpecHover == InitHover /\ [][Next]_vars

\* get_event_color on its own
SpecColor == InitColor /\ [][NextColor]_vars

-----------------------------------------------------------------------------
(* Properties *)

\* the file holds a JSON document with an `events` array
HasEvents == file.kind = "json" /\ file.doc.has_events

\* the events of the file, in file order
FileEvents == file.doc.events

\* every event of the file holds the four core keys
WellFormed == HasEvents /\ \A i \in 1..Len(FileEvents) : FileEvents[i].missing = {}

\* the last call was op and it returned
ReturnedFrom(op) == ret.op = op /\ ret.exc = ""

\* C1: for a document whose events are well-formed, parse_events returns, and
\* the DataFrame it returns and stores has exactly one row per entry of
\* `events`, whatever trace_info.total_events declares.
C1_RecordCount ==
    (WellFormed /\ ret.op = "parse_events") =>
        /\ ret.exc = ""
        /\ Len(ret.value.rows) = Len(FileEvents)
        /\ Len(parser_df.rows) = Len(FileEvents)

\* parse_events has returned the two records of a file that declares another total
C1_Witness ==
    /\ ReturnedFrom("parse_events")
    /\ Len(FileEvents) = 2
    /\ file.doc.total_events # 2
    /\ Len(ret.value.rows) = 2

\* the lane of row i of the prepared DataFrame
LaneOf(i) == events_df.rows[i][col_y_position].n

\* the module of row i
ModuleOf(i) == events_df.rows[i][col_module_name].s

\* prepare_data has set the y_position column
Placed == events_df.kind = "DataFrame" /\ HasColumn(events_df, col_y_position)

\* C2: lanes follow first-seen order.  The first record has lane 0, records of
\* the same module share a lane, a record whose module was not seen before has
\* the lane one above the highest lane so far, and the lanes in use are 0..k-1
\* for k distinct modules.
C2_LanesFirstSeen ==
    Placed =>
        LET n == Len(events_df.rows)
        IN  /\ n > 0 => LaneOf(1) = 0
            /\ \A i, j \in 1..n : ModuleOf(i) = ModuleOf(j) => LaneOf(i) = LaneOf(j)
            /\ \A i \in 2..n :
                   (\A j \in 1..(i - 1) : ModuleOf(j) # ModuleOf(i)) =>
                       /\ \A j \in 1..(i - 1) : LaneOf(j) < LaneOf(i)
                       /\ \E j \in 1..(i - 1) : LaneOf(i) = LaneOf(j) + 1
            /\ {LaneOf(i) : i \in 1..n} = 0..(Cardinality({ModuleOf(i) : i \in 1..n}) - 1)

\* UART0 is seen before CPU and has lane 0, CPU lane 1
C2_Witness ==
    /\ Placed
    /\ Len(events_df.rows) = 2
    /\ ModuleOf(1) = "UART0" /\ LaneOf(1) = 0
    /\ ModuleOf(2) = "CPU" /\ LaneOf(2) = 1

\* the fixed color table of the specification: <<event type, operation, color>>
TableColors ==
    {<<"BUS_TRANSACTION", "READ", "#3498db">>,
     <<"BUS_TRANSACTION", "WRITE", "#e74c3c">>,
     <<"DEVICE_EVENT", "READ", "#2ecc71">>,
     <<"DEVICE_EVENT", "WRITE", "#f39c12">>,
     <<"DEVICE_EVENT", "RESET", "#e67e22">>,
     <<"DEVICE_EVENT", "ENABLE", "#1abc9c">>,
     <<"DEVICE_EVENT", "DISABLE", "#95a5a6">>,
     <<"DEVICE_EVENT", "DEMO_EVENT", "#f1c40f">>}

\* the `default` color of each recognized event type
TableDefaults ==
    {<<"BUS_TRANSACTION", "#9b59b6">>,
     <<"DEVICE_EVENT", "#34495e">>,
     <<"IRQ_EVENT", "#8e44ad">>}

\* the color the table gives for an event type and an operation
TableColor(event_type, operation) ==
    IF operation.t = "str" /\ \E e \in TableColors : e[1] = event_type /\ e[2] = operation.s
    THEN (CHOOSE e \in TableColors : e[1] = event_type /\ e[2] = operation.s)[3]
    ELSE IF \E d \in TableDefaults : d[1] = event_type
    THEN (CHOOSE d \in TableDefaults : d[1] = event_type)[2]
    ELSE "#7f7f7f"

\* C3: get_event_color returns the operation's color of the table when the
\* event type is recognized and the operation has an entry under it, the event
\* type's default color when the operation is absent or has no entry, and
\* #7f7f7f for an unrecognized event type.
C3_ColorTable ==
    ret.op = "get_event_color" =>
        /\ ret.exc = ""
        /\ ret.value = TableColor(ret.args[1], ret.args[2])

\* BUS_TRANSACTION with no operation has resolved to the type's default color
C3_Witness ==
    /\ ReturnedFrom("get_event_color")
    /\ ret.args = <<"BUS_TRANSACTION", NoneV>>
    /\ ret.value = "#9b59b6"

\* C4: with zero events, create_summary_stats fails with EmptyDatasetError.
C4_EmptyDatasetError ==
    (HasEvents /\ FileEvents = <<>> /\ ret.op = "create_summary_stats") =>
        ret.exc = "EmptyDatasetError"

\* C5: load_trace_data fails with the not-found error when the path does not
\* exist, and with the format error (ValueError) when the content is not JSON or
\* is JSON without the `events` key; a document without `events` is not loaded.
C5_LoadErrors ==
    ret.op = "load_trace_data" =>
        /\ file.kind = "missing" => ret.exc = "FileNotFoundError"
        /\ file.kind = "invalid" => ret.exc = "ValueError"
        /\ (file.kind = "json" /\ ~file.doc.has_events) =>
               (ret.exc = "ValueError" /\ ~trace_data.loaded)

\* every event of the file is well-formed and holds scalar values only
Clean ==
    /\ WellFormed
    /\ \A i \in 1..Len(FileEvents) :
           \A k \in 1..Len(FileEvents[i].event_data) :
               FileEvents[i].event_data[k][2].t # "list"

\* C6: for a non-empty record sequence, create_summary_stats returns, and its
\* duration is the timestamp of the last record in input order minus that of the
\* first, unsorted and signed; start and end are the formatted_time of the same
\* two records.
C6_Duration ==
    /\ (Clean /\ FileEvents # <<>> /\ ret.op = "create_summary_stats") => ret.exc = ""
    /\ ReturnedFrom("create_summary_stats") =>
           LET first == FileEvents[1]
               last == FileEvents[Len(FileEvents)]
           IN  /\ ret.value.time_span.duration = last.timestamp.n - first.timestamp.n
               /\ ret.value.time_span.start = first.formatted_time.s
               /\ ret.value.time_span.end = last.formatted_time.s

\* create_summary_stats has returned a negative duration for records out of order
C6_Witness ==
    /\ ReturnedFrom("create_summary_stats")
    /\ Len(FileEvents) = 2
    /\ FileEvents[2].timestamp.n < FileEvents[1].timestamp.n
    /\ ret.value.time_span.duration < 0

\* prepare_data has set every derived column of events_df
Enriched ==
    /\ events_df.kind = "DataFrame"
    /\ HasColumn(events_df, col_y_position)
    /\ HasColumn(events_df, col_color)
    /\ HasColumn(events_df, col_hover_text)

\* C7: no call returns a figure or a stats object computed from a record set
\* that a failed prepare_data left partly enriched.
C7_NoPartialResults ==
    (ReturnedFrom("create_timeline_figure") \/ ReturnedFrom("create_summary_stats"))
        => Enriched

\* the event type of the i-th event of the file
TypeOf(i) == FileEvents[i].event_type.s

\* the indices of the events of the file whose type is type, in file order
IndicesOf(type) ==
    SelectSeq([i \in 1..Len(FileEvents) |-> i], LAMBDA i : TypeOf(i) = type)

\* the index of the first event of the file whose type is type
FirstOf(type) == Min({i \in 1..Len(FileEvents) : TypeOf(i) = type})

\* the number of points of a sequence of series
RECURSIVE TotalPoints(_)
TotalPoints(data) ==
    IF data = <<>> THEN 0 ELSE Len(Head(data).x) + TotalPoints(Tail(data))

\* C8: the figure holds one series per distinct event_type, in order of first
\* appearance, named by the type, holding the records of that type in input
\* order with x the timestamp and y the lane; the points are as many as the
\* records.
C8_Series ==
    ReturnedFrom("create_timeline_figure") =>
        LET data == ret.value.data
            n == Len(FileEvents)
        IN  /\ Len(data) = Cardinality({TypeOf(i) : i \in 1..n})
            /\ \A k \in 1..Len(data) : \E i \in 1..n : TypeOf(i) = data[k].name
            /\ \A k, l \in 1..Len(data) :
                   k < l => FirstOf(data[k].name) < FirstOf(data[l].name)
            /\ \A k \in 1..Len(data) :
                   LET idx == IndicesOf(data[k].name)
                   IN  /\ data[k].x = [j \in 1..Len(idx) |-> FileEvents[idx[j]].timestamp]
                       /\ data[k].y = [j \in 1..Len(idx) |->
                                          events_df.rows[idx[j]][col_y_position]]
            /\ TotalPoints(data) = n

\* a figure of two series, DEVICE_EVENT first as in the file, the second record
\* on the lane of its own module
C8_Witness ==
    /\ ReturnedFrom("create_timeline_figure")
    /\ Len(ret.value.data) = 2
    /\ ret.value.data[1].name = "DEVICE_EVENT"
    /\ ret.value.data[2].name = "BUS_TRANSACTION"
    /\ ret.value.data[2].y = <<IntV(1)>>

\* prepare_data has set the hover_text column
Hovered == events_df.kind = "DataFrame" /\ HasColumn(events_df, col_hover_text)

\* the positions, in the event_data of the i-th event of the file, of the keys
\* whose value is not null
OwnFields(i) ==
    IF FileEvents[i].has_event_data
    THEN {k \in 1..Len(FileEvents[i].event_data) : FileEvents[i].event_data[k][2].t # "None"}
    ELSE {}

\* the hover text of row i
HoverOf(i) == events_df.rows[i][col_hover_text]

\* the hover line of label `label` for the cell of row i in the column of key `key`
HoverLine(label, i, key) ==
    "<b>" \o Text(label) \o ":</b> " \o Str(events_df.rows[i][DataPrefix \o key])

\* C9: the hover text of a record is the three header lines followed by exactly
\* one line for each event_data field the record itself holds with a non-null
\* value; a field only other records hold, or a null one, gives no line.
C9_HoverLines ==
    Hovered =>
        \A i \in 1..Len(events_df.rows) :
            /\ Len(HoverOf(i)) = 3 + Cardinality(OwnFields(i))
            /\ HoverOf(i)[1] = "<b>Time:</b> " \o FileEvents[i].formatted_time.s
            /\ HoverOf(i)[2] = "<b>Module:</b> " \o FileEvents[i].module_name.s
            /\ HoverOf(i)[3] = "<b>Event Type:</b> " \o FileEvents[i].event_type.s
            /\ \A k \in OwnFields(i) :
                   \E j \in 4..Len(HoverOf(i)) :
                       HoverOf(i)[j] =
                           HoverLine(field_name(DataPrefix \o FileEvents[i].event_data[k][1]),
                                     i, FileEvents[i].event_data[k][1])

\* a record with an operation and a null irq beside a record with a size only:
\* each hover text has its header and one line
C9_Witness ==
    /\ Hovered
    /\ Len(events_df.rows) = 2
    /\ FileEvents[1].event_data = <<<<key_operation, StrV("RESET")>>, <<key_irq, NoneV>>>>
    /\ FileEvents[2].event_data = <<<<key_size, IntV(4)>>>>
    /\ Len(HoverOf(1)) = 4
    /\ Len(HoverOf(2)) = 4

\* C10: the label of the hover line of an event_data key is the key itself (the
\* field name without its leading data_), underscores as spaces, title-cased.
C10_LeadingPrefixOnly ==
    Hovered =>
        \A i \in 1..Len(events_df.rows) :
            \A k \in OwnFields(i) :
                \E j \in 4..Len(HoverOf(i)) :
                    HoverOf(i)[j] =
                        HoverLine(Title(Replace(FileEvents[i].event_data[k][1],
                                                <<"_">>, <<" ">>)),
                                  i, FileEvents[i].event_data[k][1])

\* the key at position k of the event_data of the i-th event of the file
KeyAt(i, k) == FileEvents[i].event_data[k][1]

\* C11: parse_events does not transform event_data values.  The cell of a
\* record in the column data_<key> holds the value the file gives for that
\* key, type included, also when other records lack the key.  (Stated for the
\* values that are not null.)
C11_ValuesPreserved ==
    ReturnedFrom("parse_events") =>
        \A i \in 1..Len(parser_df.rows) :
            \A k \in OwnFields(i) :
                parser_df.rows[i][DataPrefix \o KeyAt(i, k)] = FileEvents[i].event_data[k][2]

\* the events of the file that hold key in their event_data
HoldersOf(key) ==
    {r \in 1..Len(FileEvents) :
        FileEvents[r].has_event_data /\ HasKey(FileEvents[r].event_data, key)}

\* the position of key in the event_data of the r-th event
PositionIn(r, key) ==
    CHOOSE k \in 1..Len(FileEvents[r].event_data) : KeyAt(r, k) = key

\* key1 is met before key2 when the file is read event by event, each
\* event_data in its own key order
SeenBefore(key1, key2) ==
    LET r1 == Min(HoldersOf(key1))
        r2 == Min(HoldersOf(key2))
    IN  r1 < r2 \/ (r1 = r2 /\ PositionIn(r1, key1) < PositionIn(r2, key2))

\* the hover line of row i for the key at position k of its own event_data
OwnLine(i, k) == HoverLine(field_name(DataPrefix \o KeyAt(i, k)), i, KeyAt(i, k))

\* C12 as claimed: the additional hover lines of a record follow the key order
\* of the record's own event_data.
C12_OwnOrder ==
    Hovered =>
        \A i \in 1..Len(events_df.rows) :
            \A k \in OwnFields(i) :
                /\ 3 + Cardinality({l \in OwnFields(i) : l <= k}) <= Len(HoverOf(i))
                /\ HoverOf(i)[3 + Cardinality({l \in OwnFields(i) : l <= k})] = OwnLine(i, k)

\* C12: the additional hover lines of a record follow the order in which their
\* keys are first met in the dataset (file order of the events, key order within
\* an event), which is the key order of the record's own event_data only when no
\* earlier record has met its keys in another order.
C12_DatasetOrder ==
    Hovered =>
        \A i \in 1..Len(events_df.rows) :
            \A k \in OwnFields(i) :
                LET rank == 1 + Cardinality({l \in OwnFields(i) :
                                                SeenBefore(KeyAt(i, l), KeyAt(i, k))})
                IN  /\ 3 + rank <= Len(HoverOf(i))
                    /\ HoverOf(i)[3 + rank] = OwnLine(i, k)

\* record 1 holds [operation], record 2 [size, operation]: the hover text of
\* record 2 lists operation before size
C12_Witness ==
    /\ Hovered
    /\ Len(events_df.rows) = 2
    /\ FileEvents[1].event_data = <<<<key_operation, StrV("READ")>>>>
    /\ FileEvents[2].event_data = <<<<key_size, IntV(2)>>, <<key_operation, StrV("READ")>>>>
    /\ HoverOf(2)[4] = "<b>Operation:</b> READ"
    /\ HoverOf(2)[5] = "<b>Size:</b> 2.0"

====
